---- MODULE Spec2Model ----
(***************************************************************************)
(* A model of ralloc's memory bookkeeper (src/src/bookkeeper.rs).          *)
(*                                                                         *)
(* The pool is the vector of free blocks, kept in the bookkeeper.  Every   *)
(* method of the Allocator trait is an operator from a bookkeeper value    *)
(* (the record `s`) to a bookkeeper value; the public operations alloc,    *)
(* free, realloc and realloc_inplace are the actions.  Indices are         *)
(* zero-based as in the source; At(pool, i) reads element i.               *)
(*                                                                         *)
(* The model is of the performance build: debug_assert! and check() are    *)
(* compiled out, bounds-checked indexing and assert! panic.                *)
(*                                                                         *)
(* The bookkeeper of src/src/block_list.rs is modelled beside it           *)
(* (operators bl_..., variable bl, specification SpecBl), and its free     *)
(* functions aligner and canonicalize_brk are called on their own in       *)
(* SpecFn.                                                                 *)
(***************************************************************************)
EXTENDS Integers, Sequences, FiniteSets, TLC

\* ------------------------------------------------------------------ bounds
MaxOps == 5            \* public calls made in one behaviour
MaxInitCap == 5        \* largest initial capacity of the pool's vector
MaxDepth == 2          \* nested reserve() growths followed before the
                       \* recursion is reported as unbounded

\* --------------------------------------------------------------- constants
EXTRA_ELEMENTS == 2
BlockBytes == 16       \* mem::size_of::<Block>()
BlockAlign == 8        \* mem::align_of::<Block>()
BRK_MIN == 200
BRK_MIN_EXTRA == 500
BRK_MULTIPLIER == 1
HeapBase == 1000       \* segment end before the first Breaker call
BufBase == 512         \* address of the caller-supplied initial vector

Sizes == {50, 100}     \* request sizes
BigSizes == {50, 500}  \* request sizes of the behaviours of SpecBig
BlBase == 2000         \* lowest address of the block list's entries
BlBufBase == 1024      \* address of the block list's initial buffer
BlOffsets == 0..3      \* segment ends: the top of the layout plus these
BlSlack == 0..2        \* initial capacities: the length plus these
BlMaxOps == 2          \* public calls on the block list in one behaviour
BrkSpan == 700         \* sizes canonicalized: this far from 0 and from 2^w
AlignerPtrs == 0..64   \* addresses given to aligner
AlignerAligns == 1..16 \* alignments given to aligner
Aligns == {1, 8}       \* request alignments
HistLen == 3           \* calls remembered by the history variable
EmptyAddrs == {HeapBase, HeapBase + 100}   \* addresses of empty blocks freed

\* ------------------------------------------------------------------- Block
Blk(p, n) == [ptr |-> p, size |-> n]

is_empty(b) == b.size = 0

empty_left(b) == Blk(b.ptr, 0)

empty_right(b) == Blk(b.ptr + b.size, 0)

end_of(b) == b.ptr + b.size

left_to(a, b) == a.ptr + a.size = b.ptr

aligned_to(b, al) == b.ptr % al = 0

\* The padding needed to round address p up to a multiple of al.
block_aligner(p, al) == (al - (p % al)) % al

\* split(b, at) = <<[start, start+at), [start+at, start+size)>>
split(b, at) == <<Blk(b.ptr, at), Blk(b.ptr + at, b.size - at)>>

\* align(b, al): None when the aligned offset exceeds the block's size.
can_align(b, al) == block_aligner(b.ptr, al) <= b.size

align(b, al) == split(b, block_aligner(b.ptr, al))

\* merge_right succeeds only if a is immediately left of b.
merge_ok(a, b) == left_to(a, b)

merged(a, b) == Blk(a.ptr, a.size + b.size)

Overlap(a, b) == a.ptr < b.ptr + b.size /\ b.ptr < a.ptr + a.size

NoBlock == Blk(0, 0)

\* ------------------------------------------------- the pool as a slice
At(pool, i) == pool[i + 1]

SetAt(pool, i, b) == [pool EXCEPT ![i + 1] = b]

\* slice::binary_search over pool[lo..hi): Ok(x) and Err(x) both give x.
RECURSIVE binary_search(_, _, _, _)
binary_search(pool, key, lo, hi) ==
  IF lo >= hi THEN lo
  ELSE LET mid == lo + ((hi - lo) \div 2) IN
       IF At(pool, mid).ptr < key.ptr THEN binary_search(pool, key, mid + 1, hi)
       ELSE IF At(pool, mid).ptr > key.ptr THEN binary_search(pool, key, lo, mid)
       ELSE mid

\* .rev().skip(len - ind).take_while(is_empty).count()
RECURSIVE empties_left(_, _)
empties_left(pool, ind) ==
  IF ind > 0 /\ is_empty(At(pool, ind - 1))
  THEN 1 + empties_left(pool, ind - 1) ELSE 0

\* .skip(ind).take_while(is_empty).count()
RECURSIVE empties_right(_, _)
empties_right(pool, ind) ==
  IF ind < Len(pool) /\ is_empty(At(pool, ind))
  THEN 1 + empties_right(pool, ind + 1) ELSE 0

\* .skip(ind).enumerate().filter(is_empty).next(), relative to ind;
\* len - ind when there is none.
RECURSIVE next_gap(_, _)
next_gap(pool, ind) ==
  IF ind >= Len(pool) THEN 0
  ELSE IF is_empty(At(pool, ind)) THEN 0
  ELSE 1 + next_gap(pool, ind + 1)

\* for_each that forgets the block holding the pool.
RECURSIVE for_each_nobuf(_, _, _)
for_each_nobuf(pool, holder, calls) ==
  IF Len(pool) > 0
  THEN for_each_nobuf(SubSeq(pool, 1, Len(pool) - 1), holder,
                      Append(calls, pool[Len(pool)]))
  ELSE calls

\* for_each(f): the arguments f is called with, in order, after calls;
\* holder is Block::from(self.pool), the block holding the pool.
RECURSIVE for_each(_, _, _)
for_each(pool, holder, calls) ==
  IF Len(pool) > 0
  THEN for_each(SubSeq(pool, 1, Len(pool) - 1), holder,
                Append(calls, pool[Len(pool)]))
  ELSE Append(calls, holder)

find(pool, block) ==
  LET ind == binary_search(pool, block, 0, Len(pool))
  IN  ind - empties_left(pool, ind)

\* find_bound that does not move right past the empty entries.
find_bound_noright(pool, block) ==
  LET left_ind == binary_search(pool, block, 0, Len(pool))
      right_ind == binary_search(pool, empty_right(block), 0, Len(pool))
  IN  [start |-> left_ind - empties_left(pool, left_ind),
       end |-> right_ind]

find_bound(pool, block) ==
  LET left_ind == binary_search(pool, block, 0, Len(pool))
      right_ind == binary_search(pool, empty_right(block), 0, Len(pool))
  IN  [start |-> left_ind - empties_left(pool, left_ind),
       end |-> right_ind + empties_right(pool, right_ind)]

\* remove_at that leaves the empty entries to the left of ind as they are.
remove_at_norun(pool, ind) ==
  IF ind = Len(pool) - 1
  THEN LET popped == SetAt(pool, ind, empty_left(At(pool, ind)))
           new_len == Len(pool) - empties_left(popped, Len(popped))
       IN  [pool |-> SubSeq(popped, 1, new_len), res |-> At(pool, ind)]
  ELSE [pool |-> SetAt(pool, ind, empty_left(At(pool, ind + 1))),
        res |-> At(pool, ind)]

remove_at(pool, ind) ==
  IF ind = Len(pool) - 1
  THEN LET popped == SetAt(pool, ind, empty_left(At(pool, ind)))
           new_len == Len(pool) - empties_left(popped, Len(popped))
       IN  [pool |-> SubSeq(popped, 1, new_len), res |-> At(pool, ind)]
  ELSE LET empty == empty_left(At(pool, ind + 1))
           k == empties_left(pool, ind)
       IN  [pool |-> [j \in 1..Len(pool) |->
                        IF j - 1 <= ind /\ j - 1 >= ind - k THEN empty
                        ELSE pool[j]],
            res |-> At(pool, ind)]

\* The scan of alloc that leaves an entry found too small after its
\* aligner split, keeping the part before the aligner.
RECURSIVE scan_nomerge(_, _, _, _)
scan_nomerge(pool, n, size, al) ==
  IF n >= Len(pool)
  THEN [pool |-> pool, found |-> FALSE, n |-> 0, b |-> Blk(0, 0)]
  ELSE LET i == At(pool, n)
           ab == align(i, al)
       IN  IF i.size >= size /\ can_align(i, al)
           THEN IF ab[2].size >= size
                THEN [pool |-> SetAt(pool, n, ab[1]), found |-> TRUE,
                      n |-> n, b |-> ab[2]]
                ELSE scan_nomerge(SetAt(pool, n, ab[1]), n + 1, size, al)
           ELSE scan_nomerge(pool, n + 1, size, al)

\* The scan of alloc: the first entry that fits after its aligner; the
\* entries split on the way and found too small are merged back.
RECURSIVE scan(_, _, _, _)
scan(pool, n, size, al) ==
  IF n >= Len(pool)
  THEN [pool |-> pool, found |-> FALSE, n |-> 0, b |-> Blk(0, 0)]
  ELSE LET i == At(pool, n)
           ab == align(i, al)
       IN  IF i.size >= size /\ can_align(i, al)
           THEN IF ab[2].size >= size
                THEN [pool |-> SetAt(pool, n, ab[1]), found |-> TRUE,
                      n |-> n, b |-> ab[2]]
                ELSE scan(SetAt(pool, n, merged(ab[1], ab[2])),
                          n + 1, size, al)
           ELSE scan(pool, n + 1, size, al)

\* ------------------------------------------------------------ the Breaker
\* usize arithmetic of the performance build: modulo 2^w.
WordMod == 65536       \* 2^16: the width usize is modelled with

wrapping_add(a, b) == (a + b) % WordMod

wrapping_sub(a, b) == (a - b) % WordMod

wrapping_mul(a, b) == (a * b) % WordMod

canonicalize_brk(size) ==
  LET extra == IF wrapping_mul(BRK_MULTIPLIER, size) < BRK_MIN_EXTRA
               THEN wrapping_mul(BRK_MULTIPLIER, size) ELSE BRK_MIN_EXTRA
  IN  IF BRK_MIN > wrapping_add(size, extra) THEN BRK_MIN
      ELSE wrapping_add(size, extra)

\* ------------------------------------------------------------- Allocator
\* A bookkeeper value: the pool, the vector's capacity and buffer, the
\* segment end, the number of Breaker calls made by the running call, how
\* many of them were made while an entry of the pool fitted the request
\* (skipped) and how many of those by reserve (direct), the nesting of
\* reserve(), how the running call aborted, the value an uninitialised
\* slot is read as, the calls of push made and the ones among them whose
\* assertion fails (unsorted).
Panic(s) == [s EXCEPT !.abort = "panic"]

RECURSIVE push(_, _), reserve(_, _), alloc_external(_, _, _),
          alloc_fresh(_, _, _), free(_, _), free_bound(_, _, _),
          insert(_, _, _)

\* Vec::push: Err, and nothing written, when the buffer is full.
vec_push(s, b) ==
  IF Len(s.pool) < s.cap THEN [s EXCEPT !.pool = Append(@, b)] ELSE s

\* The assertion at the head of push, compiled out: the pool has a last
\* entry and block <= it.  The pushes made and the ones it fails for are
\* counted.
push_assert(s, block) ==
  [s EXCEPT !.pushes = @ + 1,
            !.unsorted = IF \/ Len(s.pool) = 0
                            \/ block.ptr > At(s.pool, Len(s.pool) - 1).ptr
                         THEN @ + 1 ELSE @]

\* push after its assertion.
push_checked(s, block) ==
  IF is_empty(block) THEN s
  ELSE IF Len(s.pool) > 0 /\ merge_ok(At(s.pool, Len(s.pool) - 1), block)
  THEN [s EXCEPT !.pool = SetAt(@, Len(@) - 1,
                                merged(At(@, Len(@) - 1), block))]
  ELSE vec_push(reserve(s, Len(s.pool) + 1), block)

push(s, block) ==
  IF s.abort # "none" THEN s
  ELSE push_checked(push_assert(s, block), block)

\* The tail of reserve, given new_buf = r.res: the entries move to new_buf
\* (refill), and the old buffer is freed.
refill(r) ==
  IF r.s.abort # "none" THEN r.s
  ELSE free([r.s EXCEPT !.buf = r.res,
                        !.cap = r.res.size \div BlockBytes,
                        !.depth = @ - 1],
            r.s.buf)

\* new_cap * mem::size_of::<Block>(), the bytes of the new backing array.
new_buf_size(min_cap) ==
  ((min_cap + EXTRA_ELEMENTS) * 2 + 16 + 1) * BlockBytes

reserve(s, min_cap) ==
  IF s.abort # "none" THEN s
  ELSE IF s.cap < Len(s.pool) + EXTRA_ELEMENTS \/ s.cap < min_cap
  THEN IF s.depth >= MaxDepth THEN [s EXCEPT !.abort = "overflow"]
       ELSE refill(alloc_external(
                     [s EXCEPT !.depth = @ + 1, !.grown = @ + 1,
                               !.direct =
                                 IF scan(s.pool, 0, new_buf_size(min_cap),
                                         BlockAlign).found
                                 THEN @ + 1 ELSE @],
                     new_buf_size(min_cap), BlockAlign))
  ELSE s

alloc_external(s, size, al) == alloc_fresh(s, size, al)

\* The required hook: a Breaker request of the canonical size; the
\* alignment padding and the excess go back to the pool.
alloc_fresh(s, size, al) ==
  LET can == canonicalize_brk(size)
      pad == Blk(s.segEnd, block_aligner(s.segEnd, al))
      res == Blk(end_of(pad), size)
      excessive == Blk(end_of(res), can - size)
      s1 == [s EXCEPT !.segEnd = @ + can + pad.size, !.fresh = @ + 1,
                      !.skipped = IF scan(s.pool, 0, size, al).found
                                  THEN @ + 1 ELSE @]
  IN  [s |-> free(free(s1, pad), excessive), res |-> res]

free(s, block) == free_bound(s, find_bound(s.pool, block), block)

\* free_bound that returns early at the end of the pool, without the push.
free_bound_nopush(s, ind, block) ==
  IF s.abort # "none" \/ is_empty(block) THEN s
  ELSE IF ind.start = Len(s.pool) THEN s
  ELSE IF ind.end < Len(s.pool) /\ left_to(block, At(s.pool, ind.end))
  THEN LET rm == remove_at(s.pool, ind.end)
           blk == merged(block, rm.res)
           s1 == [s EXCEPT !.pool = rm.pool]
       IN  IF ind.start # 0 /\ ind.start - 1 >= Len(rm.pool) THEN Panic(s1)
           ELSE IF ind.start # 0 /\ merge_ok(At(rm.pool, ind.start - 1), blk)
           THEN [s1 EXCEPT !.pool = SetAt(@, ind.start - 1,
                                   merged(At(@, ind.start - 1), blk))]
           ELSE insert(s1, ind.start, blk)
  ELSE IF ind.start # 0 /\ ind.start - 1 >= Len(s.pool) THEN Panic(s)
  ELSE IF ind.start # 0 /\ merge_ok(At(s.pool, ind.start - 1), block)
  THEN [s EXCEPT !.pool = SetAt(@, ind.start - 1,
                                merged(At(@, ind.start - 1), block))]
  ELSE insert(s, ind.start, block)

\* free_bound without the short circuit for an empty block.
free_bound_noskip(s, ind, block) ==
  IF s.abort # "none" THEN s
  ELSE IF ind.start = Len(s.pool) THEN push(s, block)
  ELSE IF ind.end < Len(s.pool) /\ left_to(block, At(s.pool, ind.end))
  THEN LET rm == remove_at(s.pool, ind.end)
           blk == merged(block, rm.res)
           s1 == [s EXCEPT !.pool = rm.pool]
       IN  IF ind.start # 0 /\ ind.start - 1 >= Len(rm.pool) THEN Panic(s1)
           ELSE IF ind.start # 0 /\ merge_ok(At(rm.pool, ind.start - 1), blk)
           THEN [s1 EXCEPT !.pool = SetAt(@, ind.start - 1,
                                   merged(At(@, ind.start - 1), blk))]
           ELSE insert(s1, ind.start, blk)
  ELSE IF ind.start # 0 /\ ind.start - 1 >= Len(s.pool) THEN Panic(s)
  ELSE IF ind.start # 0 /\ merge_ok(At(s.pool, ind.start - 1), block)
  THEN [s EXCEPT !.pool = SetAt(@, ind.start - 1,
                                merged(At(@, ind.start - 1), block))]
  ELSE insert(s, ind.start, block)

free_bound(s, ind, block) ==
  IF s.abort # "none" \/ is_empty(block) THEN s
  ELSE IF ind.start = Len(s.pool) THEN push(s, block)
  ELSE IF ind.end < Len(s.pool) /\ left_to(block, At(s.pool, ind.end))
  THEN LET rm == remove_at(s.pool, ind.end)
           blk == merged(block, rm.res)
           s1 == [s EXCEPT !.pool = rm.pool]
       IN  IF ind.start # 0 /\ ind.start - 1 >= Len(rm.pool) THEN Panic(s1)
           ELSE IF ind.start # 0 /\ merge_ok(At(rm.pool, ind.start - 1), blk)
           THEN [s1 EXCEPT !.pool = SetAt(@, ind.start - 1,
                                   merged(At(@, ind.start - 1), blk))]
           ELSE insert(s1, ind.start, blk)
  ELSE IF ind.start # 0 /\ ind.start - 1 >= Len(s.pool) THEN Panic(s)
  ELSE IF ind.start # 0 /\ merge_ok(At(s.pool, ind.start - 1), block)
  THEN [s EXCEPT !.pool = SetAt(@, ind.start - 1,
                                merged(At(@, ind.start - 1), block))]
  ELSE insert(s, ind.start, block)

\* The part of insert after the reserve: an uninitialised element is pushed
\* whether or not a gap was found, n elements move up by one from ind, and
\* block is written at ind.
insert_shift(s1, ind, block) ==
  LET n == next_gap(s1.pool, ind)
      pushed == vec_push(s1, s1.g).pool
  IN  IF s1.abort # "none" THEN s1
      ELSE IF ind + n >= Len(pushed) THEN [s1 EXCEPT !.abort = "ub"]
      ELSE [s1 EXCEPT !.pool =
              [j \in 1..Len(pushed) |->
                 IF j - 1 = ind THEN block
                 ELSE IF j - 1 > ind /\ j - 1 <= ind + n THEN pushed[j - 1]
                 ELSE pushed[j]]]

insert(s, ind, block) ==
  IF s.abort # "none" THEN s
  ELSE IF Len(s.pool) < ind THEN Panic(s)
  ELSE insert_shift(reserve(s, Len(s.pool) + 1), ind, block)

\* alloc_carve that hands out the aligned block whole, excess included.
alloc_carve_nosplit(s, sc, size, al) ==
  LET p1 == IF is_empty(At(sc.pool, sc.n))
            THEN remove_at(sc.pool, sc.n).pool ELSE sc.pool
      sp == <<sc.b, Blk(end_of(sc.b), 0)>>
  IN  IF sc.found
      THEN [s |-> free_bound([s EXCEPT !.pool = p1],
                             find_bound(p1, sp[2]), sp[2]),
            res |-> sp[1]]
      ELSE alloc_external([s EXCEPT !.pool = sc.pool], size, al)

\* alloc_carve that asks for fresh memory whatever the scan found.
alloc_carve_noscan(s, sc, size, al) == alloc_external(s, size, al)

\* The body of alloc, given the outcome sc of the scan.
alloc_carve(s, sc, size, al) ==
  LET p1 == IF is_empty(At(sc.pool, sc.n))
            THEN remove_at(sc.pool, sc.n).pool ELSE sc.pool
      sp == split(sc.b, size)
  IN  IF sc.found
      THEN [s |-> free_bound([s EXCEPT !.pool = p1],
                             find_bound(p1, sp[2]), sp[2]),
            res |-> sp[1]]
      ELSE alloc_external([s EXCEPT !.pool = sc.pool], size, al)

alloc(s, size, al) == alloc_carve(s, scan(s.pool, 0, size, al), size, al)

\* realloc_inplace_bound that refuses to shrink: Err for new_size <= size.
realloc_inplace_bound_noshrink(s, ind, block, new_size) ==
  IF new_size <= block.size
  THEN [s |-> s, ok |-> FALSE, res |-> block]
  ELSE IF /\ ind.end < Len(s.pool)
          /\ At(s.pool, ind.end).size + block.size >= new_size
          /\ left_to(block, At(s.pool, ind.end))
  THEN LET rm == remove_at(s.pool, ind.end)
           sp == split(merged(block, rm.res), new_size)
           s1 == [s EXCEPT !.pool = rm.pool]
       IN  [s |-> IF ind.start = Len(rm.pool) THEN push(s1, sp[2])
                  ELSE IF is_empty(sp[2]) THEN s1
                  ELSE IF ind.start > Len(rm.pool) THEN Panic(s1)
                  ELSE [s1 EXCEPT !.pool = SetAt(@, ind.start, sp[2])],
            ok |-> TRUE, res |-> sp[1]]
  ELSE [s |-> s, ok |-> FALSE, res |-> block]

\* realloc_inplace_bound whose Err path gives the block back to the pool.
realloc_inplace_bound_errfree(s, ind, block, new_size) ==
  IF new_size <= block.size
  THEN LET sp == split(block, new_size)
       IN  [s |-> free_bound(s, ind, sp[2]), ok |-> TRUE, res |-> sp[1]]
  ELSE IF /\ ind.end < Len(s.pool)
          /\ At(s.pool, ind.end).size + block.size >= new_size
          /\ left_to(block, At(s.pool, ind.end))
  THEN LET rm == remove_at(s.pool, ind.end)
           sp == split(merged(block, rm.res), new_size)
           s1 == [s EXCEPT !.pool = rm.pool]
       IN  [s |-> IF ind.start = Len(rm.pool) THEN push(s1, sp[2])
                  ELSE IF is_empty(sp[2]) THEN s1
                  ELSE IF ind.start > Len(rm.pool) THEN Panic(s1)
                  ELSE [s1 EXCEPT !.pool = SetAt(@, ind.start, sp[2])],
            ok |-> TRUE, res |-> sp[1]]
  ELSE [s |-> free_bound(s, ind, block), ok |-> FALSE, res |-> block]

\* realloc_inplace_bound that shrinks without freeing the tail.
realloc_inplace_bound_leak(s, ind, block, new_size) ==
  IF new_size <= block.size
  THEN [s |-> s, ok |-> TRUE, res |-> split(block, new_size)[1]]
  ELSE IF /\ ind.end < Len(s.pool)
          /\ At(s.pool, ind.end).size + block.size >= new_size
          /\ left_to(block, At(s.pool, ind.end))
  THEN LET rm == remove_at(s.pool, ind.end)
           sp == split(merged(block, rm.res), new_size)
           s1 == [s EXCEPT !.pool = rm.pool]
       IN  [s |-> IF ind.start = Len(rm.pool) THEN push(s1, sp[2])
                  ELSE IF is_empty(sp[2]) THEN s1
                  ELSE IF ind.start > Len(rm.pool) THEN Panic(s1)
                  ELSE [s1 EXCEPT !.pool = SetAt(@, ind.start, sp[2])],
            ok |-> TRUE, res |-> sp[1]]
  ELSE [s |-> s, ok |-> FALSE, res |-> block]

realloc_inplace_bound(s, ind, block, new_size) ==
  IF new_size <= block.size
  THEN LET sp == split(block, new_size)
       IN  [s |-> free_bound(s, ind, sp[2]), ok |-> TRUE, res |-> sp[1]]
  ELSE IF /\ ind.end < Len(s.pool)
          /\ At(s.pool, ind.end).size + block.size >= new_size
          /\ left_to(block, At(s.pool, ind.end))
  THEN LET rm == remove_at(s.pool, ind.end)
           sp == split(merged(block, rm.res), new_size)
           s1 == [s EXCEPT !.pool = rm.pool]
       IN  [s |-> IF ind.start = Len(rm.pool) THEN push(s1, sp[2])
                  ELSE IF is_empty(sp[2]) THEN s1
                  ELSE IF ind.start > Len(rm.pool) THEN Panic(s1)
                  ELSE [s1 EXCEPT !.pool = SetAt(@, ind.start, sp[2])],
            ok |-> TRUE, res |-> sp[1]]
  ELSE [s |-> s, ok |-> FALSE, res |-> block]

realloc_inplace(s, block, new_size) ==
  realloc_inplace_bound(s, find_bound(s.pool, block), block, new_size)

\* The end of realloc's fallback, given the new block a.res: the old block
\* is freed at a bound searched again.
realloc_free_old(a, block) ==
  [s |-> free_bound(a.s, find_bound(a.s.pool, block), block),
   res |-> a.res, ok |-> FALSE]

\* realloc, given the outcome r of the in-place attempt; ok tells whether
\* the block was adjusted in place.
realloc_match(r, new_size, al) ==
  IF r.ok THEN r
  ELSE realloc_free_old(alloc(r.s, new_size, al), r.res)

realloc(s, block, new_size, al) ==
  realloc_match(realloc_inplace_bound(s, find_bound(s.pool, block), block,
                                      new_size),
                new_size, al)

\* ------------------------------------------------------- the block list
\* block_list.rs: the list of block entries behind a raw pointer, with its
\* own length and capacity.  usize arithmetic wraps (performance build).
EntryBytes == 24       \* mem::size_of::<BlockEntry>()

aligner(ptr, al) == wrapping_sub(al, ptr % al)

\* Block -> BlockEntry (.into()): an entry of the list that is free.
Entry(p, n) == [ptr |-> p, size |-> n, free |-> TRUE]

\* A block-list value: the slots written so far (mem, the first len of
\* them are the list), the capacity the list believes it has (cap) and the
\* slots its buffer really has (real), the buffer's address, the segment
\* end, the sizes asked of sys::inc_brk, the nesting of reserve(), how the
\* running call aborted, and what a slot never written is read as.  The
\* list derefs to a slice of len slots (slice::from_raw_parts): undefined
\* when the buffer has fewer.
BlPanic(b) == [b EXCEPT !.abort = "panic"]

BlUb(b) == [b EXCEPT !.abort = "ub"]

\* The slice the list derefs to: slots 0 .. len - 1.
BlSlice(b) == SubSeq(b.mem, 1, b.len)

\* Slot j of the buffer, written or not.
BlRead(b, j) == IF j < Len(b.mem) THEN b.mem[j + 1] ELSE b.g

\* The slots after writing v to slot j: slots below j never written before
\* now hold what they were read as.
BlWrite(b, j, v) ==
  [i \in 1..(IF j + 1 > Len(b.mem) THEN j + 1 ELSE Len(b.mem)) |->
     IF i = j + 1 THEN v ELSE BlRead(b, i - 1)]

search(b, block) == binary_search(BlSlice(b), block, 0, b.len)

bl_find(b, block) == search(b, block)

\* The loop of alloc: from the last entry to the first, without a break;
\* ins is the match seen last, every matching entry is cut down.
RECURSIVE bl_scan(_, _, _, _, _)
bl_scan(mem, n, size, al, ins) ==
  IF n < 0 THEN [mem |-> mem, ins |-> ins]
  ELSE LET i == mem[n + 1]
           a == aligner(i.ptr, al)
       IN  IF wrapping_sub(i.size, a) >= size
           THEN bl_scan([mem EXCEPT ![n + 1] =
                           IF a = 0 THEN [i EXCEPT !.free = FALSE]
                           ELSE [i EXCEPT !.size = a]],
                        n - 1, size, al,
                        [some |-> TRUE, n |-> n,
                         b |-> Blk(wrapping_add(wrapping_add(i.ptr, a), size),
                                   wrapping_sub(wrapping_sub(i.size, a),
                                                size))])
           ELSE bl_scan(mem, n - 1, size, al, ins)

bl_realloc_inplace(b, ind, old_size, size) ==
  IF ind = wrapping_sub(b.len, 1) THEN [b |-> b, ok |-> FALSE]
  ELSE IF ind + 1 >= b.len THEN [b |-> BlPanic(b), ok |-> FALSE]
  ELSE LET additional == wrapping_sub(old_size, size)
           next == b.mem[ind + 2]
           moved == [next EXCEPT !.ptr = wrapping_add(@, additional),
                                 !.size = wrapping_sub(@, additional)]
       IN  IF wrapping_add(old_size, next.size) >= size
           THEN [b |-> [b EXCEPT !.mem[ind + 2] =
                          IF moved.size = 0
                          THEN [moved EXCEPT !.free = FALSE] ELSE moved],
                 ok |-> TRUE]
           ELSE [b |-> b, ok |-> FALSE]

RECURSIVE bl_alloc(_, _, _), bl_push(_, _), bl_alloc_fresh(_, _, _),
          bl_realloc(_, _, _, _), bl_reserve(_, _), bl_free(_, _),
          bl_insert(_, _, _)

\* The end of alloc, given the outcome sc of the loop.
bl_alloc_place(b, sc, size, al) ==
  IF sc.ins.some
  THEN [b |-> IF sc.ins.b.size # 0
              THEN bl_insert([b EXCEPT !.mem = sc.mem], sc.ins.n,
                             Entry(sc.ins.b.ptr, sc.ins.b.size))
              ELSE [b EXCEPT !.mem = sc.mem],
        res |-> wrapping_sub(sc.ins.b.ptr, size)]
  ELSE bl_alloc_fresh(b, size, al)

bl_alloc(b, size, al) ==
  IF b.abort # "none" THEN [b |-> b, res |-> 0]
  ELSE IF b.len > b.real THEN [b |-> BlUb(b), res |-> 0]
  ELSE
  bl_alloc_place(b, bl_scan(b.mem, b.len - 1, size, al, [some |-> FALSE]),
                 size, al)

\* The write of push, after the reserve: to the slot behind the last
\* entry; the length stays as it is.
bl_push_write(b, block) ==
  IF b.abort # "none" THEN b
  ELSE IF b.len = 0 \/ b.len >= b.real THEN BlUb(b)
  ELSE [b EXCEPT !.mem = BlWrite(b, b.len, block)]

bl_push(b, block) ==
  IF b.abort # "none" THEN b
  ELSE bl_push_write(bl_reserve(b, b.len + 1), block)

\* sys::inc_brk(n): the segment grows by n, the old end is returned.
inc_brk(b, n) == [b EXCEPT !.segEnd = wrapping_add(@, n),
                           !.brk = Append(@, n)]

\* The pushes of alloc_fresh, given the old segment end ptr.
bl_fresh_push(b, ptr, a, can_size, size) ==
  [b |-> bl_push(bl_push(b, Entry(ptr, a)),
                 Entry(wrapping_add(wrapping_add(ptr, a), size),
                       wrapping_sub(can_size, size))),
   res |-> wrapping_add(ptr, a)]

bl_alloc_fresh(b, size, al) ==
  IF b.abort # "none" THEN [b |-> b, res |-> 0]
  ELSE bl_fresh_push(inc_brk(b, wrapping_add(canonicalize_brk(size),
                                             aligner(b.segEnd, al))),
                     b.segEnd, aligner(b.segEnd, al),
                     canonicalize_brk(size), size)

\* The fallback of realloc, given the new pointer a.res: the old block is
\* freed.
bl_realloc_free_old(a, block) ==
  [b |-> bl_free(a.b, block), res |-> a.res, ok |-> FALSE]

\* realloc, given the outcome r of the in-place attempt; ok tells whether
\* the block was adjusted in place.
bl_realloc_match(r, block, new_size, al) ==
  IF r.b.abort # "none" THEN [b |-> r.b, res |-> 0, ok |-> FALSE]
  ELSE IF r.ok THEN [b |-> r.b, res |-> block.ptr, ok |-> TRUE]
  ELSE bl_realloc_free_old(bl_alloc(r.b, new_size, al), block)

bl_realloc(b, block, new_size, al) ==
  IF b.abort # "none" THEN [b |-> b, res |-> 0, ok |-> FALSE]
  ELSE IF b.len > b.real THEN [b |-> BlUb(b), res |-> 0, ok |-> FALSE]
  ELSE
  bl_realloc_match(bl_realloc_inplace(b, bl_find(b, block), block.size,
                                      new_size),
                   block, new_size, al)

\* The end of reserve, given the outcome r of the realloc: the list lives
\* at r.res and believes in needed * 2 slots.  Moved, it has needed * 2
\* bytes, and the first cap bytes of the old list were copied.
bl_reserve_set(r, old, needed) ==
  IF r.b.abort # "none" THEN r.b
  ELSE IF r.res = old.buf
  THEN [r.b EXCEPT !.cap = needed * 2, !.depth = @ - 1]
  ELSE [r.b EXCEPT !.cap = needed * 2, !.depth = @ - 1, !.buf = r.res,
                   !.real = (needed * 2) \div EntryBytes,
                   !.mem = [i \in 1..Len(@) |->
                              IF i <= old.cap \div EntryBytes
                              THEN @[i] ELSE r.b.g]]

bl_reserve(b, needed) ==
  IF b.abort # "none" THEN b
  ELSE IF needed > b.cap
  THEN IF b.depth >= MaxDepth THEN [b EXCEPT !.abort = "overflow"]
       ELSE bl_reserve_set(bl_realloc([b EXCEPT !.depth = @ + 1],
                                      Blk(b.buf, b.cap), needed * 2,
                                      BlockAlign),
                           b, needed)
  ELSE b

\* The body of free, given ind = find(block).
bl_free_at(b, ind, block) ==
  IF ind # 0 /\ left_to(b.mem[ind], block)
  THEN [b EXCEPT !.mem[ind].size = wrapping_add(@, block.size)]
  ELSE IF ind < wrapping_sub(b.len, 1)
  THEN IF ind >= b.len THEN BlPanic(b)
       ELSE IF left_to(b.mem[ind + 1], block)
       THEN [b EXCEPT !.mem[ind + 1].size = wrapping_add(@, block.size)]
       ELSE bl_insert(b, ind, Entry(block.ptr, block.size))
  ELSE bl_insert(b, ind, Entry(block.ptr, block.size))

bl_free(b, block) ==
  IF b.abort # "none" THEN b
  ELSE IF b.len > b.real THEN BlUb(b)
  ELSE bl_free_at(b, bl_find(b, block), block)

\* The offset from ind of the next entry marked free, -1 if there is none.
RECURSIVE bl_next_free(_, _, _)
bl_next_free(b, ind, k) ==
  IF ind + k >= b.len THEN -1
  ELSE IF b.mem[ind + k + 1].free THEN k
  ELSE bl_next_free(b, ind, k + 1)

\* The memmove and the write of insert, given the list b after the search
\* for a gap and the offset n: len - n slots move up by one from ind, block
\* is written to slot ind, the length grows by one.  The slice must lie in
\* the buffer, and so must the slots written.
bl_insert_shift(b, ind, n, block) ==
  IF b.abort # "none" THEN b
  ELSE IF b.len > b.real THEN BlUb(b)
  ELSE IF ind + 1 > b.len THEN BlPanic(b)
  ELSE IF ind + (b.len - n) >= b.real THEN BlUb(b)
  ELSE [b EXCEPT !.len = @ + 1,
                 !.mem = [j \in 1..(IF ind + (b.len - n) + 1 > Len(@)
                                    THEN ind + (b.len - n) + 1
                                    ELSE IF b.len + 1 > Len(@)
                                    THEN b.len + 1
                                    ELSE Len(@)) |->
                            IF j - 1 = ind THEN block
                            ELSE IF j - 1 > ind /\ j - 1 <= ind + (b.len - n)
                            THEN BlRead(b, j - 2)
                            ELSE BlRead(b, j - 1)]]

bl_insert(b, ind, block) ==
  IF b.abort # "none" THEN b
  ELSE IF b.len > b.real THEN BlUb(b)
  ELSE IF bl_next_free(b, ind, 0) >= 0
  THEN bl_insert_shift(b, ind, bl_next_free(b, ind, 0), block)
  ELSE bl_insert_shift(bl_reserve(b, b.len + 1), ind, ind, block)

\* What a slot of the list's buffer that was never written may be read
\* as: zeroed memory, or stale bytes that look like a free entry.
BlGarbage == {[ptr |-> 0, size |-> 0, free |-> FALSE],
              [ptr |-> BlBase + 16, size |-> 120, free |-> TRUE]}

\* The lists a block-list bookkeeper is constructed with, the blocks its
\* caller holds and the segment end: the empty list, and lists of one and
\* two free entries around held blocks, one with a held block in front of
\* both entries.
BlLayouts ==
  {[mem |-> <<>>, held |-> {}, top |-> BlBase],
   [mem |-> <<Entry(BlBase, 100)>>,
    held |-> {Blk(BlBase + 100, 50)}, top |-> BlBase + 150],
   [mem |-> <<Entry(BlBase, 100), Entry(BlBase + 200, 100)>>,
    held |-> {Blk(BlBase + 100, 100)}, top |-> BlBase + 300],
   [mem |-> <<Entry(BlBase + 150, 50), Entry(BlBase + 300, 100)>>,
    held |-> {Blk(BlBase + 100, 50), Blk(BlBase + 200, 100)},
    top |-> BlBase + 400]}

\* The block-list bookkeeper constructed with layout l, slack spare slots
\* and the segment end off bytes above the layout, before any call; last
\* is the latest call, with the sizes it asked of sys::inc_brk, ops the
\* names of the calls made.
BlNew(l, slack, off) ==
  [mem |-> l.mem, len |-> Len(l.mem), cap |-> Len(l.mem) + slack,
   real |-> Len(l.mem) + slack, buf |-> BlBufBase,
   segEnd |-> l.top + off, held |-> l.held, crashed |-> "none",
   steps |-> 0, ops |-> <<>>,
   last |-> [op |-> "new", blk |-> NoBlock, size |-> 0, align |-> 1,
             res |-> 0, ok |-> FALSE, brk |-> <<>>, empty |-> FALSE]]

\* A call of a free function with arguments a and b, before it has run.
Call(fn, a, b) == [fn |-> fn, a |-> a, b |-> b, out |-> 0, done |-> FALSE]

NoCall == Call("none", 0, 0)

\* ------------------------------------------------------------------ state
VARIABLES pool,      \* Bookkeeper.pool: the entries, in index order
          cap,       \* the capacity of the pool's vector
          buf,       \* the block backing the pool's vector
          segEnd,    \* the Breaker's segment end
          held,      \* the blocks the caller currently holds
          crashed,   \* "none", or how a call failed to return
          hist,      \* the last HistLen calls, oldest first
          steps,     \* number of public calls made
          skipped,   \* who has made a Breaker request while an entry of
                     \* the pool fitted it: "none", "reserve", "alloc"
          bl,        \* the bookkeeper of block_list.rs and its caller
          calc,      \* a call of a free function: its name, arguments
                     \* and, once it has run, its result
          torn,      \* the blocks for_each has called f with, in order;
                     \* empty while the bookkeeper is alive
          pushed     \* the calls of push so far: "none", "sorted" when
                     \* the assertion of push held at each, "unsorted"

vars == <<pool, cap, buf, segEnd, held, crashed, hist, steps, skipped, bl,
          calc, torn, pushed>>

\* What an uninitialised vector slot may be read as: zeroed memory, or
\* stale bytes that look like a block inside the heap.
Garbage == {Blk(0, 0), Blk(HeapBase + 16, 120)}

\* The bookkeeper value a call starts from.
St(g) == [pool |-> pool, cap |-> cap, buf |-> buf, segEnd |-> segEnd,
          fresh |-> 0, skipped |-> 0, direct |-> 0, grown |-> 0, depth |-> 0,
          abort |-> "none", g |-> g, pushes |-> 0, unsorted |-> 0]

Rec(op, blk, size, al, res, ok, s) ==
  [op |-> op, blk |-> blk, size |-> size, align |-> al, res |-> res,
   ok |-> ok, fresh |-> s.fresh, grown |-> s.grown]

Remember(rec) ==
  LET h == Append(hist, rec)
  IN  IF Len(h) > HistLen THEN SubSeq(h, 2, Len(h)) ELSE h

\* The call returned: its effects become the state.  It did not return:
\* the program is gone, and the state is the one the call started from.
Commit(s, h, rec) ==
  /\ steps' = steps + 1
  /\ UNCHANGED <<bl, calc, torn>>
  /\ pushed' = IF s.unsorted > 0 THEN "unsorted"
               ELSE IF s.pushes > 0 /\ pushed = "none" THEN "sorted"
               ELSE pushed
  /\ skipped' = IF s.skipped > s.direct THEN "alloc"
                 ELSE IF s.skipped > 0 /\ skipped = "none" THEN "reserve"
                 ELSE skipped
  /\ IF s.abort = "none"
     THEN /\ pool' = s.pool
          /\ cap' = s.cap
          /\ buf' = s.buf
          /\ segEnd' = s.segEnd
          /\ held' = h
          /\ hist' = Remember(rec)
          /\ crashed' = "none"
     ELSE /\ crashed' = s.abort
          /\ UNCHANGED <<pool, cap, buf, segEnd, held, hist>>

Ready == crashed = "none" /\ steps < MaxOps /\ torn = <<>>

Init ==
  /\ pool = <<>>
  /\ cap \in EXTRA_ELEMENTS..MaxInitCap
  /\ buf = Blk(BufBase, cap * BlockBytes)
  /\ segEnd = HeapBase
  /\ held = {}
  /\ crashed = "none"
  /\ hist = <<>>
  /\ steps = 0
  /\ skipped = "none"
  /\ bl = BlNew(CHOOSE l \in BlLayouts : l.mem = <<>>, 0, 0)
  /\ calc = NoCall
  /\ torn = <<>>
  /\ pushed = "none"

\* The caller's side of a call that gave r: the block b it passed is gone,
\* the block r.res it got is held.
Return(op, b, size, al, r, ok) ==
  Commit(r.s, (held \ {b}) \cup ({r.res} \ {NoBlock}),
         Rec(op, b, size, al, r.res, ok, r.s))

\* The same for a call whose result says whether it succeeded.
ReturnResult(op, b, size, al, r) == Return(op, b, size, al, r, r.ok)

\* alloc with the size drawn from S.
AllocOf(S) ==
  /\ Ready
  /\ \E size \in S, al \in Aligns, g \in Garbage :
       Return("alloc", NoBlock, size, al, alloc(St(g), size, al), TRUE)

Alloc == AllocOf(Sizes)

AllocBig == AllocOf(BigSizes)

Free ==
  /\ Ready
  /\ \E b \in held, g \in Garbage :
       Return("free", b, 0, 1, [s |-> free(St(g), b), res |-> NoBlock], TRUE)

Realloc ==
  /\ Ready
  /\ \E b \in held, size \in Sizes, al \in Aligns, g \in Garbage :
       ReturnResult("realloc", b, size, al, realloc(St(g), b, size, al))

ReallocInplace ==
  /\ Ready
  /\ \E b \in held, size \in Sizes, g \in Garbage :
       ReturnResult("realloc_inplace", b, size, 1,
                    realloc_inplace(St(g), b, size))

\* free of an empty block, which no alloc hands out: the caller makes one.
FreeEmpty ==
  /\ Ready
  /\ \E p \in EmptyAddrs, g \in Garbage :
       Return("free", Blk(p, 0), 0, 1,
              [s |-> free(St(g), Blk(p, 0)), res |-> NoBlock], TRUE)

\* for_each(f) consumes the bookkeeper: the pool is popped empty and its
\* vector is turned into a block.
ForEach ==
  /\ Ready
  /\ torn' = for_each(pool, buf, <<>>)
  /\ pool' = <<>>
  /\ cap' = 0
  /\ buf' = NoBlock
  /\ steps' = steps + 1
  /\ hist' = Remember(Rec("for_each", NoBlock, 0, 1, NoBlock, TRUE,
                          [fresh |-> 0, grown |-> 0]))
  /\ UNCHANGED <<segEnd, held, crashed, skipped, bl, calc, pushed>>

Next == Alloc \/ Free \/ Realloc \/ ReallocInplace \/ FreeEmpty \/ ForEach

Spec == Init /\ [][Next]_vars

\* The same program with requests large enough to leave a free entry the
\* size of a new backing array.
NextBig == AllocBig \/ Free \/ Realloc \/ ReallocInplace \/ FreeEmpty

SpecBig == Init /\ [][NextBig]_vars

\* ------------------------------------------- the block list's behaviours
\* The block-list value a call starts from.
BlSt(g) == [mem |-> bl.mem, len |-> bl.len, cap |-> bl.cap,
            real |-> bl.real, buf |-> bl.buf, segEnd |-> bl.segEnd,
            brk |-> <<>>, depth |-> 0, abort |-> "none", g |-> g]

BlRec(op, blk, size, al, r, ok) ==
  [op |-> op, blk |-> blk, size |-> size, align |-> al,
   res |-> IF r.b.abort = "none" THEN r.res ELSE 0, ok |-> ok,
   brk |-> r.b.brk, empty |-> bl.len = 0]

\* The call returned: its effects become the state.  It did not return:
\* the list is as the call found it, but the Breaker has been asked.
BlCommit(r, h, rec) ==
  /\ bl' = IF r.b.abort = "none"
           THEN [mem |-> r.b.mem, len |-> r.b.len, cap |-> r.b.cap,
                 real |-> r.b.real, buf |-> r.b.buf,
                 segEnd |-> r.b.segEnd, held |-> h, crashed |-> "none",
                 steps |-> bl.steps + 1, ops |-> Append(bl.ops, rec.op),
                 last |-> rec]
           ELSE [bl EXCEPT !.segEnd = r.b.segEnd, !.crashed = r.b.abort,
                           !.steps = @ + 1, !.ops = Append(@, rec.op),
                           !.last = rec]
  /\ UNCHANGED <<pool, cap, buf, segEnd, held, crashed, hist, steps,
                 skipped, calc, torn, pushed>>

BlReady == bl.crashed = "none" /\ bl.steps < BlMaxOps

InitBl ==
  /\ pool = <<>>
  /\ cap = EXTRA_ELEMENTS
  /\ buf = Blk(BufBase, cap * BlockBytes)
  /\ segEnd = HeapBase
  /\ held = {}
  /\ crashed = "none"
  /\ hist = <<>>
  /\ steps = 0
  /\ skipped = "none"
  /\ \E l \in BlLayouts, slack \in BlSlack, off \in BlOffsets :
        bl = BlNew(l, slack, off)
  /\ calc = NoCall
  /\ torn = <<>>
  /\ pushed = "none"

\* The caller's side of a call alloc(size, align) that gave r.
BlAllocReturn(size, al, r) ==
  BlCommit(r, bl.held \cup {Blk(r.res, size)},
           BlRec("alloc", NoBlock, size, al, r, FALSE))

BlAlloc ==
  /\ BlReady
  /\ \E size \in Sizes, al \in Aligns, g \in BlGarbage :
       BlAllocReturn(size, al, bl_alloc(BlSt(g), size, al))

BlFree ==
  /\ BlReady
  /\ \E blk \in bl.held, g \in BlGarbage :
       BlCommit([b |-> bl_free(BlSt(g), blk), res |-> 0],
                bl.held \ {blk},
                BlRec("free", blk, 0, 1, [b |-> BlSt(g), res |-> 0], FALSE))

\* The caller's side of a call realloc(blk, size, align) that gave r.
BlReallocReturn(blk, size, al, r) ==
  BlCommit(r, (bl.held \ {blk}) \cup {Blk(r.res, size)},
           BlRec("realloc", blk, size, al, r, r.ok))

BlRealloc ==
  /\ BlReady
  /\ \E blk \in bl.held, size \in Sizes, al \in Aligns, g \in BlGarbage :
       BlReallocReturn(blk, size, al, bl_realloc(BlSt(g), blk, size, al))

NextBl == BlAlloc \/ BlFree \/ BlRealloc

SpecBl == InitBl /\ [][NextBl]_vars

\* ------------------------------------------- the free functions' calls
\* The sizes canonicalize_brk is called with: small ones, and the ones at
\* the top of usize.
BrkSizes == (0..BrkSpan) \cup ((WordMod - BrkSpan - 1)..(WordMod - 1))

InitFn ==
  /\ pool = <<>>
  /\ cap = EXTRA_ELEMENTS
  /\ buf = Blk(BufBase, cap * BlockBytes)
  /\ segEnd = HeapBase
  /\ held = {}
  /\ crashed = "none"
  /\ hist = <<>>
  /\ steps = 0
  /\ skipped = "none"
  /\ bl = BlNew(CHOOSE l \in BlLayouts : l.mem = <<>>, 0, 0)
  /\ \/ \E size \in BrkSizes : calc = Call("canonicalize_brk", size, 0)
     \/ \E ptr \in AlignerPtrs, al \in AlignerAligns :
           calc = Call("aligner", ptr, al)
  /\ torn = <<>>
  /\ pushed = "none"

Ran(out) ==
  /\ calc' = [calc EXCEPT !.out = out, !.done = TRUE]
  /\ UNCHANGED <<pool, cap, buf, segEnd, held, crashed, hist, steps,
                 skipped, bl, torn, pushed>>

CanonicalizeBrk ==
  /\ calc.fn = "canonicalize_brk" /\ ~calc.done
  /\ Ran(canonicalize_brk(calc.a))

Aligner ==
  /\ calc.fn = "aligner" /\ ~calc.done
  /\ Ran(aligner(calc.a, calc.b))

NextFn == CanonicalizeBrk \/ Aligner

SpecFn == InitFn /\ [][NextFn]_vars

\* ----------------------------------------------------------------- claims
Entries == 1..Len(pool)

NonEmptyEntries == {i \in Entries : ~is_empty(pool[i])}

LastCall == hist[Len(hist)]

Returned == crashed = "none" /\ Len(hist) > 0

\* C1: after every call, the pool entries are sorted in ascending order of
\* start address.
C1_Sorted ==
  \A i \in Entries : i < Len(pool) => pool[i].ptr <= pool[i + 1].ptr

\* C2: after every call, no two non-empty pool entries overlap, and no
\* non-empty entry ends exactly where the next non-empty entry starts.
C2_NoOverlapNoAdjacent ==
  \A i, j \in NonEmptyEntries :
     i < j => /\ ~Overlap(pool[i], pool[j])
              /\ ~left_to(pool[i], pool[j])

\* C3: after every call, the last pool entry, if there is one, is a
\* non-empty block.
C3_NoTrailingEmpty ==
  Len(pool) > 0 => ~is_empty(pool[Len(pool)])

\* C4: after every call, every empty pool entry has a right neighbour and
\* its address is the start address of that neighbour.
C4_EmptyAtRightNeighbour ==
  \A i \in Entries :
     is_empty(pool[i]) => i < Len(pool) /\ pool[i].ptr = pool[i + 1].ptr

\* C5: after every public operation the capacity of the pool is at least
\* its length plus EXTRA_ELEMENTS.
C5_Headroom == cap >= Len(pool) + EXTRA_ELEMENTS

\* C6: no pool entry overlaps a block the caller holds, and no two blocks
\* the caller holds overlap each other.
C6_NoAlias ==
  /\ \A i \in NonEmptyEntries : \A h \in held : ~Overlap(pool[i], h)
  /\ \A h1, h2 \in held : h1 # h2 => ~Overlap(h1, h2)

\* C7: every alloc(size, align) that returns, returns a block of exactly
\* `size` bytes whose start address is divisible by `align`, whether it was
\* carved from a pool entry or obtained from the Breaker.
C7_AllocSizeAligned ==
  \A k \in 1..Len(hist) :
     hist[k].op = "alloc" =>
        /\ hist[k].res.size = hist[k].size
        /\ aligned_to(hist[k].res, hist[k].align)

\* An alloc carved from a pool entry behind a non-empty alignment gap, after
\* an alloc that went to the Breaker.
C7_Witness ==
  /\ Returned
  /\ LastCall.op = "alloc" /\ LastCall.fresh = 0 /\ LastCall.align = 8
  /\ \E i \in NonEmptyEntries : left_to(pool[i], LastCall.res)
  /\ \E k \in 1..Len(hist) : hist[k].op = "alloc" /\ hist[k].fresh > 0

\* C8: immediately after alloc returns block R, the byte range of R
\* overlaps no entry of the pool.
C8_ResultNotInPool ==
  (Returned /\ LastCall.op = "alloc") =>
     \A i \in NonEmptyEntries : ~Overlap(pool[i], LastCall.res)

\* The last three calls were b = alloc(100, 8); free(b); c = alloc(100, 8).
RoundTrip ==
  /\ Returned /\ Len(hist) = 3
  /\ hist[1].op = "alloc" /\ hist[1].size = 100 /\ hist[1].align = 8
  /\ hist[2].op = "free" /\ hist[2].blk = hist[1].res
  /\ hist[3].op = "alloc" /\ hist[3].size = 100 /\ hist[3].align = 8

FreeTwo(g, x, y) == free(free(St(g), x), y)

\* Exactly one non-empty entry of p touches span, and it is span.
OneEntry(p, span) ==
  /\ Cardinality({i \in 1..Len(p) :
                    ~is_empty(p[i]) /\ Overlap(p[i], span)}) = 1
  /\ \E i \in 1..Len(p) : p[i] = span

\* Both orders returned, and left the same pool with span as one entry.
SameCoalesced(ab, ba, span) ==
  (ab.abort = "none" /\ ba.abort = "none")
  => /\ OneEntry(ab.pool, span)
     /\ OneEntry(ba.pool, span)
     /\ ab.pool = ba.pool

\* C10: for held blocks A = [p, p+50) and B = [p+50, p+100) whose
\* neighbouring addresses are not free, freeing A then B, or B then A,
\* leaves exactly one non-empty entry covering them, [p, p+100), and the
\* same pool for both orders.
C10_Coalesce ==
  crashed = "none" =>
    \A A, B \in held :
      ( /\ A.size = 50 /\ B.size = 50 /\ left_to(A, B)
        /\ \A i \in NonEmptyEntries :
              ~left_to(pool[i], A) /\ ~left_to(B, pool[i]) )
      => \A g \in Garbage :
           SameCoalesced(FreeTwo(g, A, B), FreeTwo(g, B, A), merged(A, B))

\* The call before the last one.
PrevCall == hist[Len(hist) - 1]

\* The last two calls were r = realloc(b, S, align); realloc(r, old_size,
\* align), with old_size the size of b.
ReallocBack ==
  /\ Returned /\ Len(hist) >= 2
  /\ PrevCall.op = "realloc" /\ LastCall.op = "realloc"
  /\ LastCall.blk = PrevCall.res
  /\ LastCall.size = PrevCall.blk.size
  /\ LastCall.align = PrevCall.align

C12_ReallocSizeAligned ==
  \A k \in 1..Len(hist) :
     hist[k].op = "realloc" =>
        /\ hist[k].res.size = hist[k].size
        /\ aligned_to(hist[k].res, hist[k].align)

\* The step is a call of realloc_inplace that returned Err.
InplaceErrStep ==
  /\ steps' = steps + 1 /\ crashed' = "none"
  /\ hist'[Len(hist')].op = "realloc_inplace"
  /\ ~hist'[Len(hist')].ok

\* C13: when realloc_inplace(block, new_size) returns Err, the block it
\* returns has the start and the size of the argument, the pool (entries,
\* order, length, capacity) is as it was before the call, and no Breaker
\* call was made.
C13_ErrLeavesPool ==
  [][InplaceErrStep =>
       /\ hist'[Len(hist')].res = hist'[Len(hist')].blk
       /\ hist'[Len(hist')].fresh = 0
       /\ UNCHANGED <<pool, cap, buf, segEnd, held>>]_vars

\* A realloc_inplace that returned Err while the pool had entries.
C13_Witness ==
  /\ Returned
  /\ LastCall.op = "realloc_inplace" /\ ~LastCall.ok
  /\ LastCall.size > LastCall.blk.size
  /\ NonEmptyEntries # {}

\* Some non-empty pool entry covers the byte range of b.
Tracked(b) ==
  \E i \in NonEmptyEntries :
     pool[i].ptr <= b.ptr /\ end_of(b) <= end_of(pool[i])

\* The last call was realloc_inplace(block, new_size), new_size <= size.
ShrinkCall ==
  /\ Returned /\ LastCall.op = "realloc_inplace"
  /\ LastCall.size <= LastCall.blk.size

InplaceGrowStep ==
  /\ steps' = steps + 1 /\ crashed' = "none"
  /\ hist'[Len(hist')].op = "realloc_inplace"
  /\ hist'[Len(hist')].size > hist'[Len(hist')].blk.size

\* The entries of the pool before the call that can extend b to n bytes.
Extenders(b, n) ==
  {i \in NonEmptyEntries :
     pool[i].ptr = end_of(b) /\ pool[i].size + b.size >= n}

\* What is left of entry e after b has grown into it to n bytes.
Remainder(b, e, n) == Blk(b.ptr + n, b.size + e.size - n)

\* The result c of growing b to n bytes in place, against the pool before
\* and after the call.
GrowOutcome(c, b, n) ==
  /\ c.ok <=> Extenders(b, n) # {}
  /\ c.ok => /\ c.res = Blk(b.ptr, n)
             /\ \E i \in Extenders(b, n) :
                   \/ is_empty(Remainder(b, pool[i], n))
                   \/ \E j \in 1..Len(pool') :
                         pool'[j] = Remainder(b, pool[i], n)

\* C15: for new_size > block.size, realloc_inplace returns Ok exactly when
\* a non-empty pool entry starts at block.start + block.size and its size
\* plus block.size is >= new_size; on Ok the result starts at block.start
\* with size exactly new_size, and the part of the merged span beyond
\* new_size, if non-empty, is a pool entry afterwards.
C15_GrowInplace ==
  [][InplaceGrowStep =>
       GrowOutcome(hist'[Len(hist')], hist'[Len(hist')].blk,
                   hist'[Len(hist')].size)]_vars

\* The step is a call free(block) with block.size = 0 that returned.
FreeEmptyStep ==
  /\ steps' = steps + 1 /\ crashed' = "none"
  /\ hist'[Len(hist')].op = "free"
  /\ is_empty(hist'[Len(hist')].blk)

\* C16: free(block) with block.size = 0 leaves the pool (entries, length,
\* capacity) unchanged and makes no Breaker call, in every reachable state.
C16_FreeEmptyNoOp ==
  [][FreeEmptyStep =>
       /\ hist'[Len(hist')].fresh = 0
       /\ UNCHANGED <<pool, cap, buf, segEnd, held>>]_vars

\* free of an empty block at the start of a pool entry that has a free
\* neighbour behind it: a non-empty block there would be merged.
C16_Witness ==
  /\ Returned /\ LastCall.op = "free" /\ is_empty(LastCall.blk)
  /\ \E i \in NonEmptyEntries : pool[i].ptr = LastCall.blk.ptr
  /\ Cardinality(NonEmptyEntries) >= 2

\* The step is a public call in which reserve had to replace the pool's
\* backing array: the call returned after a growth, or did not return
\* because the growth recursed.
GrowthStep ==
  /\ steps' = steps + 1
  /\ \/ crashed' = "overflow"
     \/ crashed' = "none" /\ hist'[Len(hist')].grown > 0

\* Block b is an entry of pool p, or part of a larger entry it merged into.
TrackedIn(p, b) ==
  \E j \in 1..Len(p) : p[j].ptr <= b.ptr /\ end_of(b) <= end_of(p[j])

\* C17: when an insert or push exhausts the capacity and reserve replaces
\* the pool's backing array, the call completes, every block tracked as free
\* before the growth and not handed out by the call is still tracked
\* afterwards at the same address and with the same size, and the pool is
\* in address order, so that the block inserted or pushed is at its sorted
\* position.
C17_GrowthPreserves ==
  [][GrowthStep =>
       /\ crashed' = "none"
       /\ \A i \in NonEmptyEntries :
             \/ TrackedIn(pool', pool[i])
             \/ Overlap(pool[i], hist'[Len(hist')].res)
       /\ \A j \in 1..(Len(pool') - 1) : pool'[j].ptr <= pool'[j + 1].ptr]_vars

\* C18: within any single top-level call, reserve never triggers a second
\* reserve-driven growth in the same call chain: the recursion through pool
\* growth is at most one level deep and every operation terminates.  The
\* model gives up a call as "overflow" when a reserve nested MaxDepth deep
\* has to grow the pool again.
C18_SingleLevelGrowth == crashed # "overflow"

\* No call that returned has grown the pool.
NoGrowthReturns == \A k \in 1..Len(hist) : hist[k].grown = 0

\* C19 as stated: the fresh-allocation path is entered only after a scan
\* found no pool entry that can hold the requested size after alignment:
\* no operation requests fresh memory while a fitting free entry exists.
C19_Original == skipped = "none"

\* C19 as amended: alloc, also as the fallback of realloc, enters the
\* fresh-allocation path only after its scan found no pool entry that can
\* hold the size after alignment; only reserve requests fresh memory while
\* a fitting free entry exists.
C19_AllocScansFirst == skipped # "alloc"

\* An alloc that went to the Breaker although the pool had an entry of 50
\* bytes or more in front of the fresh memory: the scan had found it too
\* small.
C19_Witness ==
  /\ Returned /\ LastCall.op = "alloc" /\ LastCall.fresh > 0
  /\ \E i \in NonEmptyEntries :
        pool[i].size >= 50 /\ end_of(pool[i]) <= LastCall.res.ptr

\* C20: block list -- the first call ever on an empty list, alloc(100, 1),
\* asks sys::inc_brk for exactly 200 bytes first.
C20_FirstAllocAsks200 ==
  (/\ bl.steps = 1
   /\ bl.last.op = "alloc"
   /\ bl.last.empty
   /\ bl.last.size = 100
   /\ bl.last.align = 1)
  => (bl.last.brk # <<>> /\ Head(bl.last.brk) = 200)

\* The larger and the smaller of two numbers.
Max(a, b) == IF a > b THEN a ELSE b

Min(a, b) == IF a < b THEN a ELSE b

\* C21: block list -- for every size, canonicalize_brk(size) is
\* max(200, size + min(1 * size, 500)) and is at least size, with usize
\* arithmetic modulo 2^w and sizes up to the top of the range.
C21_CanonicalAtLeastSize ==
  (calc.fn = "canonicalize_brk" /\ calc.done)
  => /\ calc.out = Max(200, calc.a + Min(1 * calc.a, 500))
     /\ calc.out >= calc.a

\* C30: block list -- aligner(ptr, align) is the smallest k >= 0 such that
\* ptr + k is a multiple of align, so 0 when ptr is a multiple of align.
C30_AlignerIsPadding ==
  (calc.fn = "aligner" /\ calc.done)
  => /\ (calc.a + calc.out) % calc.b = 0
     /\ \A k \in 0..(calc.out - 1) : (calc.a + k) % calc.b # 0

\* The step is a call of for_each.
ForEachStep == torn = <<>> /\ torn' # <<>>

\* C22: for_each(f) calls f exactly once for every entry that was in the
\* pool, from the last to the first, then exactly once more, last, for the
\* block backing the pool's own array; afterwards nothing remains tracked.
C22_ForEachDrains ==
  [][ForEachStep =>
       /\ Len(torn') = Len(pool) + 1
       /\ \A i \in 1..Len(pool) : torn'[i] = pool[Len(pool) + 1 - i]
       /\ torn'[Len(torn')] = buf
       /\ pool' = <<>>]_vars

\* A bookkeeper torn down with three entries or more in its pool, an empty
\* one among them.
C22_Witness ==
  /\ Len(torn) >= 4
  /\ \E i \in 1..(Len(torn) - 1) : is_empty(torn[i])
  /\ \E i \in 1..(Len(torn) - 1) : ~is_empty(torn[i])

\* The entries of the block list that stand for free memory.
BlFreeEntries == {i \in 1..bl.len : bl.mem[i].free /\ bl.mem[i].size > 0}

\* The last call on the block list returned, and was a realloc done in
\* place.
BlInplace == bl.crashed = "none" /\ bl.last.op = "realloc" /\ bl.last.ok

\* C23: block list -- whenever realloc_inplace returns Ok for a block at
\* pointer p, the range [p, p + size) afterwards overlaps no entry of the
\* block list.
C23_InplaceRangeFree ==
  BlInplace =>
    \A i \in BlFreeEntries :
       ~Overlap(Blk(bl.last.blk.ptr, bl.last.size), bl.mem[i])

\* Calls were made on the block list, all of them alloc or free, and all
\* returned.
BlAllocFreeOnly ==
  /\ bl.crashed = "none" /\ bl.steps > 0
  /\ \A k \in 1..Len(bl.ops) : bl.ops[k] \in {"alloc", "free"}

\* C24: block list -- after any sequence of alloc and free calls, no two
\* free entries of the block list overlap and no two free entries are
\* adjacent; freeing a block with a free neighbour on both sides leaves one
\* merged entry.
C24_NoOverlapNoAdjacent ==
  BlAllocFreeOnly =>
    \A i, j \in BlFreeEntries :
       i # j => /\ ~Overlap(bl.mem[i], bl.mem[j])
                /\ ~left_to(bl.mem[i], bl.mem[j])

\* The indices at or after ind of the empty entries of p.
GapsFrom(p, ind) == {k \in ind..(Len(p) - 1) : is_empty(At(p, k))}

\* The nearest of them.
NearestGap(p, ind) ==
  CHOOSE k \in GapsFrom(p, ind) : \A m \in GapsFrom(p, ind) : k <= m

\* Pool p with block at index ind and the entries between ind and the
\* nearest empty entry moved up by one slot into it; with no empty entry,
\* all entries from ind moved up by one and the pool one longer.
Inserted(p, ind, block) ==
  IF GapsFrom(p, ind) # {}
  THEN [j \in 1..Len(p) |->
          IF j - 1 = ind THEN block
          ELSE IF j - 1 > ind /\ j - 1 <= NearestGap(p, ind) THEN p[j - 1]
          ELSE p[j]]
  ELSE [j \in 1..(Len(p) + 1) |->
          IF j - 1 < ind THEN p[j]
          ELSE IF j - 1 = ind THEN block
          ELSE p[j - 1]]

\* The insert of block b at find(b) returned the pool as Inserted has it.
InsertsAsSpecified(r, b) ==
  r.abort = "none" => r.pool = Inserted(pool, find(pool, b), b)

\* C25: insert(ind, block), block non-empty and ind = find(block), places
\* block at ind and shifts right by one slot only the entries between ind
\* and the nearest empty entry at or after ind, consuming it, the length
\* staying as it is; only when there is no such empty entry does the length
\* grow by one.  Checked for every block the caller holds, in every state.
C25_InsertShiftsToGap ==
  crashed = "none" =>
    \A b \in held, g \in Garbage :
       InsertsAsSpecified(insert(St(g), find(pool, b), b), b)

\* The indices below ind of the unbroken run of empty entries of p that
\* ends directly before ind.
RunLeft(p, ind) ==
  {k \in 0..(ind - 1) : \A m \in k..(ind - 1) : is_empty(At(p, m))}

\* r is what remove_at(ind) is specified to give on pool p.
Removed(r, p, ind) ==
  /\ r.res = At(p, ind)
  /\ IF ind = Len(p) - 1
     THEN r.pool = SubSeq(p, 1, ind - Cardinality(RunLeft(p, ind)))
     ELSE /\ Len(r.pool) = Len(p)
          /\ \A k \in 0..(Len(p) - 1) :
                At(r.pool, k) = IF k = ind \/ k \in RunLeft(p, ind)
                                THEN Blk(At(p, ind + 1).ptr, 0)
                                ELSE At(p, k)

\* C26: remove_at(ind) returns the block that was at ind; if ind was the
\* last index the pool is truncated so that the removed slot and every empty
\* entry directly before it are dropped; otherwise slot ind and every empty
\* entry in the unbroken run directly to its left become empty placeholders
\* at the start of entry ind + 1, and all other entries are unchanged.
\* Checked for every index of the pool, in every state.
C26_RemoveAt ==
  crashed = "none" =>
    \A ind \in 0..(Len(pool) - 1) : Removed(remove_at(pool, ind), pool, ind)

\* A pool of three entries or more in which an empty entry stands directly
\* before a non-empty one that is not the last.
C26_Witness ==
  /\ crashed = "none" /\ Len(pool) >= 3
  /\ \E ind \in 1..(Len(pool) - 2) :
        is_empty(At(pool, ind - 1)) /\ ~is_empty(At(pool, ind))

\* The pool satisfies invariants 1 to 4.
PoolInvariants ==
  /\ C1_Sorted
  /\ C2_NoOverlapNoAdjacent
  /\ C4_EmptyAtRightNeighbour
  /\ C3_NoTrailingEmpty

\* The blocks find_bound is asked about: the blocks held, and empty and
\* non-empty blocks at the start and at the end of every entry; of these,
\* the ones that overlap no non-empty entry.
Probes ==
  {b \in held
         \cup {Blk(pool[i].ptr, 0) : i \in Entries}
         \cup {Blk(end_of(pool[i]), 0) : i \in Entries}
         \cup {Blk(end_of(pool[i]), 50) : i \in Entries} :
     \A i \in NonEmptyEntries : ~Overlap(pool[i], b)}

\* The indices of the non-empty entries that start below address a, and of
\* those that start at or after it.
StartBelow(a) == {k \in 0..(Len(pool) - 1) :
                    ~is_empty(At(pool, k)) /\ At(pool, k).ptr < a}

StartFrom(a) == {k \in 0..(Len(pool) - 1) :
                   ~is_empty(At(pool, k)) /\ At(pool, k).ptr >= a}

\* r is the range find_bound is specified to give for block b.
Bound(r, b) ==
  /\ r.start <= r.end
  /\ \A k \in r.start..(r.end - 1) : is_empty(At(pool, k))
  /\ IF r.start > 0
     THEN /\ r.start - 1 \in StartBelow(b.ptr)
          /\ \A k \in StartBelow(b.ptr) : k <= r.start - 1
     ELSE StartBelow(b.ptr) = {}
  /\ IF r.end < Len(pool)
     THEN /\ r.end \in StartFrom(end_of(b))
          /\ \A k \in StartFrom(end_of(b)) : k >= r.end
     ELSE StartFrom(end_of(b)) = {}
  /\ r.start = find(pool, b)

\* C27: on a pool satisfying invariants 1-4, for a block not overlapping any
\* non-empty entry, find_bound(block) returns a range r, r.start <= r.end,
\* whose entries are all empty, with entry r.start - 1 (if any) the nearest
\* non-empty entry starting below block.start and entry r.end (if any) the
\* nearest non-empty entry starting at or after the block's end;
\* r.start = find(block).
C27_FindBound ==
  (crashed = "none" /\ PoolInvariants) =>
    \A b \in Probes : Bound(find_bound(pool, b), b)

\* A pool satisfying the invariants with an empty entry in it, and a held
\* block whose bound spans that entry.
C27_Witness ==
  /\ crashed = "none" /\ PoolInvariants /\ steps > 0
  /\ \E b \in held \cap Probes :
        /\ find_bound(pool, b).start < find_bound(pool, b).end
        /\ find_bound(pool, b).start > 0

\* C28: at every call of push made by alloc, free and realloc with valid
\* arguments, the assertion of push holds: the pool is non-empty and the
\* block pushed compares <= the last pool entry.
C28_PushSorted == pushed # "unsorted"

\* The step is a call of alloc that returned.
AllocStep ==
  /\ steps' = steps + 1 /\ crashed' = "none"
  /\ hist'[Len(hist')].op = "alloc"

\* The entries of the pool before the call whose part after the alignment
\* gap has n bytes or more.
Fitting(n, al) ==
  {i \in Entries : pool[i].size - block_aligner(pool[i].ptr, al) >= n}

\* The one of them with the lowest index.
FirstFit(n, al) ==
  CHOOSE i \in Fitting(n, al) : \A j \in Fitting(n, al) : i <= j

\* Call c was served from entry i of the pool before it.
ServedFrom(c, i) ==
  c.res = Blk(pool[i].ptr + block_aligner(pool[i].ptr, c.align), c.size)

\* The entries in others are entries of the pool after the call, with the
\* start and the size they had.
Kept(others) == \A j \in others : \E k \in 1..Len(pool') : pool'[k] = pool[j]

\* C29 as stated: alloc serves the request from the lowest-index pool entry
\* whose part after the alignment gap has size >= size, and every other pool
\* entry keeps its start and size.
C29_Original ==
  [][(AllocStep /\ Fitting(hist'[Len(hist')].size,
                            hist'[Len(hist')].align) # {})
     => /\ ServedFrom(hist'[Len(hist')],
                      FirstFit(hist'[Len(hist')].size,
                               hist'[Len(hist')].align))
        /\ Kept(Entries \ {FirstFit(hist'[Len(hist')].size,
                                      hist'[Len(hist')].align)})]_vars

\* C29 as amended: alloc serves the request from the lowest-index pool entry
\* whose part after the alignment gap has size >= size, and every other
\* non-empty pool entry keeps its start and size.
C29_FirstFit ==
  [][(AllocStep /\ Fitting(hist'[Len(hist')].size,
                            hist'[Len(hist')].align) # {})
     => /\ ServedFrom(hist'[Len(hist')],
                      FirstFit(hist'[Len(hist')].size,
                               hist'[Len(hist')].align))
        /\ Kept(NonEmptyEntries \ {FirstFit(hist'[Len(hist')].size,
                                              hist'[Len(hist')].align)})]_vars

\* An alloc served from the pool behind an entry that has the size asked
\* for but not after its alignment gap: it was split and merged back.
C29_Witness ==
  /\ Returned /\ LastCall.op = "alloc" /\ LastCall.fresh = 0
  /\ \E i \in NonEmptyEntries :
        /\ pool[i].ptr < LastCall.res.ptr
        /\ pool[i].size >= LastCall.size
        /\ pool[i].size - block_aligner(pool[i].ptr, LastCall.align)
             < LastCall.size

\* The step is a call of alloc on the block list that returned.
BlAllocStep ==
  /\ bl.crashed = "none" /\ bl'.crashed = "none"
  /\ bl'.steps = bl.steps + 1 /\ bl'.last.op = "alloc"

\* The entries of the block list before the call that are not entries of it
\* afterwards: the ones the call modified.
BlCut == {i \in 1..bl.len : \A j \in 1..bl'.len : bl'.mem[j] # bl.mem[i]}

\* C31: block list -- alloc(size, align) carves the result only from a list
\* entry whose size is at least aligner + size (an entry smaller than its
\* aligner, where i.size - aligner wraps, is never selected), and at most
\* one list entry is modified per call.
C31_AllocCarvesOne ==
  [][BlAllocStep
     => /\ Cardinality(BlCut) <= 1
        /\ \A i \in BlCut :
              bl.mem[i].size >= aligner(bl.mem[i].ptr, bl'.last.align)
                                  + bl'.last.size]_vars

\* The bytes obtained from the Breaker so far.
Obtained == Blk(HeapBase, segEnd - HeapBase)

\* Block b lies within block o.
Within(b, o) == o.ptr <= b.ptr /\ end_of(b) <= end_of(o)

\* The number of bytes blocks a and b have in common.
Common(a, b) ==
  Max(0, Min(end_of(a), end_of(b)) - Max(a.ptr, b.ptr))

\* The bytes of the first k entries of pool p.
RECURSIVE PoolBytes(_, _)
PoolBytes(p, k) == IF k = 0 THEN 0 ELSE p[k].size + PoolBytes(p, k - 1)

\* The bytes of the blocks in S.
RECURSIVE Bytes(_)
Bytes(S) ==
  IF S = {} THEN 0
  ELSE LET b == CHOOSE x \in S : TRUE IN b.size + Bytes(S \ {b})

\* No byte is in two of: a pool entry, a block the caller holds, the pool's
\* backing array.
OwnedOnce ==
  /\ \A i, j \in NonEmptyEntries : i # j => ~Overlap(pool[i], pool[j])
  /\ \A i \in NonEmptyEntries : \A h \in held : ~Overlap(pool[i], h)
  /\ \A h1, h2 \in held : h1 # h2 => ~Overlap(h1, h2)
  /\ \A i \in NonEmptyEntries : ~Overlap(pool[i], buf)
  /\ \A h \in held : ~Overlap(h, buf)

\* The pool and the caller hold bytes obtained from the Breaker only.
FromBreaker ==
  /\ \A i \in NonEmptyEntries : Within(pool[i], Obtained)
  /\ \A h \in held : Within(h, Obtained)

\* As many bytes are owned as were obtained.
NoneLost ==
  PoolBytes(pool, Len(pool)) + Bytes(held) + Common(buf, Obtained)
    = Obtained.size

\* C32: memory is conserved across any finite sequence of valid alloc /
\* free / realloc calls: every byte obtained from the Breaker is in exactly
\* one of a pool entry, a block held by the caller, or the pool's backing
\* array, and the pool tracks no byte that was never obtained from the
\* Breaker.
C32_MemoryConserved ==
  (crashed = "none" /\ torn = <<>>)
    => OwnedOnce /\ FromBreaker /\ NoneLost

====
